---- MODULE Spec2Model ----
(***************************************************************************)
(* Model of src/parse/properties/margin.c of LibCSS: the four entry points *)
(* parse_margin_{top,right,bottom,left} and the routine they share,        *)
(* parse_margin_side.  One call is a walk of the program counter pc over   *)
(* the statements of parse_margin_side; the collaborators that live in     *)
(* other files (the token vector, parse_unit_specifier, buildOPV and       *)
(* css_stylesheet_style_create) are modelled by their contracts.           *)
(*                                                                         *)
(* A behaviour is: a caller holds a token vector and a cursor, calls one   *)
(* entry point, and then calls an entry point a second time on the same    *)
(* vector from the same cursor value, the collaborators answering the      *)
(* second call as they answered the first.                                  *)
(***************************************************************************)
EXTENDS Integers, Sequences, FiniteSets

\* ------------------------------------------------------------------ bounds

\* Longest token vector explored.
MaxLen == 2

\* ------------------------------------------------- constants of the headers
\* (the enumerators margin.c takes from bytecode/bytecode.h and
\* bytecode/opcodes.h, with the values those headers give them)

\* enum flag (bytecode/bytecode.h)
FLAG_INHERIT == 2

\* margin values (bytecode/opcodes.h)
MARGIN_SET == 128
MARGIN_AUTO == 0

\* enum unit (bytecode/bytecode.h)
UNIT_PX == 0
UNIT_PCT == 256
UNIT_ANGLE == 512
UNIT_DEG == 512
UNIT_TIME == 1024
UNIT_MS == 1024
UNIT_FREQ == 2048
UNIT_HZ == 2048

\* enum opcode (bytecode/opcodes.h)
CSS_PROP_MARGIN_TOP == 48
CSS_PROP_MARGIN_RIGHT == 49
CSS_PROP_MARGIN_BOTTOM == 50
CSS_PROP_MARGIN_LEFT == 51

\* sizeof(uint32_t): opv and unit; sizeof(css_fixed): length
SizeofOpv == 4
SizeofLength == 4
SizeofUnit == 4

\* css_error kinds named by the doc comments of margin.c
CSS_OK == "CSS_OK"
CSS_NOMEM == "CSS_NOMEM"
CSS_INVALID == "CSS_INVALID"

\* token types; the routine only tells CSS_TOKEN_IDENT from the rest
CSS_TOKEN_IDENT == "IDENT"
CSS_TOKEN_STRING == "STRING"
CSS_TOKEN_DIMENSION == "DIMENSION"

\* c->strings[]: the interned handles of the two keywords
INHERIT == "inherit"
AUTO == "auto"

strings == [k \in {INHERIT, AUTO} |-> IF k = INHERIT THEN "h_inherit" ELSE "h_auto"]

\* ------------------------------------------------------------ input domains

\* Tokens: a type and the interned lower-case handle of the token's text.
\* A STRING token may carry the very handle of a keyword.
Tokens ==
    { [type |-> CSS_TOKEN_IDENT, ilower |-> "h_inherit"],
      [type |-> CSS_TOKEN_IDENT, ilower |-> "h_auto"],
      [type |-> CSS_TOKEN_IDENT, ilower |-> "h_none"],
      [type |-> CSS_TOKEN_STRING, ilower |-> "h_inherit"],
      [type |-> CSS_TOKEN_STRING, ilower |-> "h_auto"],
      [type |-> CSS_TOKEN_DIMENSION, ilower |-> "h_dim"] }

Vectors == UNION { [1..n -> Tokens] : n \in 0..MaxLen }

\* Magnitudes (css_fixed, 22.10 fixed point): 0, 10.0 and -1.0
Lengths == {0, 10240, -1024}

Units == {UNIT_PX, UNIT_PCT, UNIT_DEG, UNIT_MS, UNIT_HZ}

\* no token (a NULL css_token pointer) and no style (a NULL css_style pointer)
NULL == [type |-> "NULL", ilower |-> "NULL"]
NoStyle == <<>>
\* an indeterminate (never yet assigned) integer local, and a byte not yet
\* written
Undef == -1
NoAnswer == [error |-> "none"]

VARIABLES
    vector,         \* the caller's token vector
    start,          \* the caller's cursor value before each call
    ctx,            \* *ctx
    pc,             \* position in parse_margin_side
    entry,          \* the entry point the caller called
    op,             \* the opcode passed by the entry point
    orig_ctx, error, token, flags, value, opv, length, unit, required_size,
    result,         \* *result: NULL or the bytes of the style's bytecode
    ret,            \* the value the call returned
    unitAnswer,     \* what parse_unit_specifier answered (kept for the re-run)
    allocAnswer,    \* what css_stylesheet_style_create answered (kept)
    unit_ctx,       \* *ctx when parse_unit_specifier was entered, -1 if never
    allocCalls,     \* allocation requests made by the current call
    allocSize,      \* the size asked of the allocator by the current call
    visited,        \* statements executed by the current call
    run,            \* number of calls started
    first           \* outcome of the first call

vars == <<vector, start, ctx, pc, entry, op, orig_ctx, error, token, flags, value, opv,
          length, unit, required_size, result, ret, unitAnswer, allocAnswer,
          unit_ctx, allocCalls, allocSize, visited, run, first>>

locals == <<orig_ctx, error, token, flags, value, opv, length, unit, required_size>>
caller == <<vector, start, entry, op, run, first>>
oracle == <<unitAnswer, allocAnswer>>

\* ------------------------------------------------------------ collaborators

\* parserutils_vector_peek: the token at index c (from 0), NULL past the end
parserutils_vector_peek(v, c) ==
    IF c >= 0 /\ c < Len(v) THEN v[c + 1] ELSE NULL

\* parserutils_vector_iterate: the cursor after consuming the token at c
parserutils_vector_iterate(v, c) ==
    IF c >= 0 /\ c < Len(v) THEN c + 1 ELSE c

\* parse_unit_specifier(c, vector, ctx, UNIT_PX, &length, &unit): the answers
\* it may give when entered with the cursor at c.  On success it has consumed
\* at least one token and set both out-parameters.  On failure it reports
\* CSS_INVALID or CSS_NOMEM, leaves the out-parameters alone, and the cursor
\* may rest on any token it had reached (its own roll back is not relied on).
parse_unit_specifier(v, c) ==
    { [error |-> CSS_OK, ctx |-> n, length |-> l, unit |-> u] :
          n \in (c + 1)..Len(v), l \in Lengths, u \in Units }
    \cup
    { [error |-> e, ctx |-> n] :
          e \in {CSS_INVALID, CSS_NOMEM}, n \in c..Len(v) }

\* css_stylesheet_style_create(sheet, len, &style): CSS_OK with a fresh style
\* whose bytecode has len bytes, none written yet, or CSS_NOMEM
css_stylesheet_style_create(len) ==
    { [error |-> CSS_OK, bytecode |-> [i \in 1..len |-> Undef]],
      [error |-> CSS_NOMEM] }

\* x & mask # 0, for a mask of one bit
BitSet(x, mask) == (x \div mask) % 2 = 1

\* buildOPV(opcode, flags, value):
\*   (opcode & 0x3ff) | (flags << 10) | ((value & 0x3fff) << 18)
buildOPV(o, f, v) == (o % 1024) + (f * 1024) + ((v % 16384) * 262144)

\* the fields of an OPV word, as the bytecode's reader takes them apart
getOpcode(w) == w % 1024
getFlags(w) == (w \div 1024) % 256
getValue(w) == w \div 262144

\* the object representation of a 32-bit word (two's complement, least
\* significant byte first)
Bytes(w) == [i \in 1..4 |-> (w \div (256 ^ (i - 1))) % 256]

\* memcpy(((uint8_t *) buf) + off, &w, 4)
memcpy(buf, off, w) ==
    [i \in DOMAIN buf |-> IF i > off /\ i <= off + 4 THEN Bytes(w)[i - off] ELSE buf[i]]

\* ---------------------------------------------------------------- the calls

Init ==
    /\ vector \in Vectors
    /\ start \in 0..Len(vector)
    /\ ctx = start
    /\ pc = "idle"
    /\ entry = "none"
    /\ op = Undef
    /\ orig_ctx = Undef /\ error = "undef" /\ token = NULL /\ flags = Undef
    /\ value = Undef /\ opv = Undef /\ length = Undef /\ unit = Undef
    /\ required_size = Undef
    /\ result = NoStyle
    /\ ret = "none"
    /\ unitAnswer = NoAnswer
    /\ allocAnswer = NoAnswer
    /\ unit_ctx = -1
    /\ allocCalls = 0
    /\ allocSize = 0
    /\ visited = {}
    /\ run = 0
    /\ first = [entry |-> "none", ret |-> "none", ctx |-> start, result |-> NoStyle]

\* what a finished call leaves with its caller
Outcome == [entry |-> entry, ret |-> ret, ctx |-> ctx, result |-> result]

\* flags declared without its initialiser: any value may be found in it
InitFlags_Indeterminate == {0, FLAG_INHERIT}

\* line 125: uint8_t flags = 0
InitFlags == {0}

\* A caller calls entry point e, which enters parse_margin_side with opcode o
\* (lines 118-130): the first call from the cursor value start, the second
\* from that same value, with a fresh place for the result.  The locals with
\* an initialiser get it; the others are indeterminate until assigned.
parse_margin_side(e, o) ==
    /\ pc \in {"idle", "returned"}
    /\ entry' = e
    /\ run < 2
    /\ run' = run + 1
    /\ first' = IF pc = "returned" THEN Outcome ELSE first
    /\ op' = o
    /\ ctx' = start
    /\ orig_ctx' = start
    /\ flags' \in InitFlags
    /\ value' = 0
    /\ length' = 0
    /\ unit' = 0
    /\ error' = "undef" /\ token' = NULL /\ opv' = Undef /\ required_size' = Undef
    /\ result' = NoStyle
    /\ ret' = "none"
    /\ unit_ctx' = -1
    /\ allocCalls' = 0
    /\ allocSize' = 0
    /\ visited' = {}
    /\ pc' = "peek"
    /\ UNCHANGED <<vector, start, oracle>>

\* lines 33-39
parse_margin_bottom == parse_margin_side("parse_margin_bottom", CSS_PROP_MARGIN_BOTTOM)

\* margin-left entered with the opcode of margin-right
parse_margin_left_WrongOp == parse_margin_side("parse_margin_left", CSS_PROP_MARGIN_RIGHT)

\* lines 55-60
parse_margin_left == parse_margin_side("parse_margin_left", CSS_PROP_MARGIN_LEFT)

\* lines 76-81
parse_margin_right == parse_margin_side("parse_margin_right", CSS_PROP_MARGIN_RIGHT)

\* lines 97-102
parse_margin_top == parse_margin_side("parse_margin_top", CSS_PROP_MARGIN_TOP)

history == <<unit_ctx, allocCalls, allocSize>>

\* lines 133-137: nothing at the cursor
PeekEmpty ==
    /\ pc = "peek"
    /\ parserutils_vector_peek(vector, ctx) = NULL
    /\ token' = NULL
    /\ ctx' = orig_ctx
    /\ ret' = CSS_INVALID
    /\ pc' = "returned"
    /\ visited' = visited \cup {"peek"}
    /\ UNCHANGED <<caller, oracle, history, orig_ctx, error, flags, value, opv,
                   length, unit, required_size, result>>

\* lines 133-134: a token at the cursor
PeekToken ==
    /\ pc = "peek"
    /\ parserutils_vector_peek(vector, ctx) # NULL
    /\ token' = parserutils_vector_peek(vector, ctx)
    /\ pc' = "test_inherit"
    /\ visited' = visited \cup {"peek"}
    /\ UNCHANGED <<caller, oracle, history, ctx, orig_ctx, error, flags, value,
                   opv, length, unit, required_size, result, ret>>

\* the handle compared without looking at the token's type
IsKeyword_NoTypeCheck(tok, k) == tok.ilower = strings[k]

\* lines 139-140 and 143-144: token->type == CSS_TOKEN_IDENT &&
\* token->ilower == c->strings[k]
IsKeyword(tok, k) == tok.type = CSS_TOKEN_IDENT /\ tok.ilower = strings[k]

\* the inherit branch not closed off from the tests that follow it
MatchInherit_FallThrough ==
    /\ pc = "test_inherit"
    /\ IsKeyword(token, INHERIT)
    /\ ctx' = parserutils_vector_iterate(vector, ctx)
    /\ flags' = FLAG_INHERIT
    /\ pc' = "test_auto"
    /\ visited' = visited \cup {"test_inherit", "inherit"}
    /\ UNCHANGED <<caller, oracle, history, orig_ctx, error, token, value, opv,
                   length, unit, required_size, result, ret>>

\* lines 139-142
MatchInherit ==
    /\ pc = "test_inherit"
    /\ IsKeyword(token, INHERIT)
    /\ ctx' = parserutils_vector_iterate(vector, ctx)
    /\ flags' = FLAG_INHERIT
    /\ pc' = "build"
    /\ visited' = visited \cup {"test_inherit", "inherit"}
    /\ UNCHANGED <<caller, oracle, history, orig_ctx, error, token, value, opv,
                   length, unit, required_size, result, ret>>

\* lines 139-140, the test failing
NotInherit ==
    /\ pc = "test_inherit"
    /\ ~IsKeyword(token, INHERIT)
    /\ pc' = "test_auto"
    /\ visited' = visited \cup {"test_inherit"}
    /\ UNCHANGED <<caller, oracle, history, ctx, locals, result, ret>>

\* the auto branch without its parserutils_vector_iterate
MatchAuto_NoIterate ==
    /\ pc = "test_auto"
    /\ IsKeyword(token, AUTO)
    /\ value' = MARGIN_AUTO
    /\ pc' = "build"
    /\ visited' = visited \cup {"test_auto", "auto"}
    /\ UNCHANGED <<caller, oracle, history, ctx, orig_ctx, error, token, flags,
                   opv, length, unit, required_size, result, ret>>

\* lines 143-146
MatchAuto ==
    /\ pc = "test_auto"
    /\ IsKeyword(token, AUTO)
    /\ ctx' = parserutils_vector_iterate(vector, ctx)
    /\ value' = MARGIN_AUTO
    /\ pc' = "build"
    /\ visited' = visited \cup {"test_auto", "auto"}
    /\ UNCHANGED <<caller, oracle, history, orig_ctx, error, token, flags, opv,
                   length, unit, required_size, result, ret>>

\* lines 143-144, the test failing
NotAuto ==
    /\ pc = "test_auto"
    /\ ~IsKeyword(token, AUTO)
    /\ pc' = "parse_unit"
    /\ visited' = visited \cup {"test_auto"}
    /\ UNCHANGED <<caller, oracle, history, ctx, locals, result, ret>>

\* The answers open to parse_unit_specifier now: any on the first call, and on
\* the second call the answer it gave the first.
UnitAnswers ==
    IF unitAnswer = NoAnswer THEN parse_unit_specifier(vector, ctx) ELSE {unitAnswer}

\* every failure of the unit sub-parser reported as CSS_INVALID
ParseUnitFail_Rewrap ==
    /\ pc = "parse_unit"
    /\ \E a \in UnitAnswers :
          /\ a.error # CSS_OK
          /\ unitAnswer' = a
          /\ error' = a.error
          /\ ctx' = orig_ctx
          /\ ret' = CSS_INVALID
    /\ unit_ctx' = ctx
    /\ pc' = "returned"
    /\ visited' = visited \cup {"parse_unit"}
    /\ UNCHANGED <<caller, allocAnswer, allocCalls, allocSize, orig_ctx, token,
                   flags, value, opv, length, unit, required_size, result>>

\* lines 148-153: the unit sub-parser fails
ParseUnitFail ==
    /\ pc = "parse_unit"
    /\ \E a \in UnitAnswers :
          /\ a.error # CSS_OK
          /\ unitAnswer' = a
          /\ error' = a.error
          /\ ctx' = orig_ctx
          /\ ret' = a.error
    /\ unit_ctx' = ctx
    /\ pc' = "returned"
    /\ visited' = visited \cup {"parse_unit"}
    /\ UNCHANGED <<caller, allocAnswer, allocCalls, allocSize, orig_ctx, token,
                   flags, value, opv, length, unit, required_size, result>>

\* lines 148-150: the unit sub-parser succeeds
ParseUnitOk ==
    /\ pc = "parse_unit"
    /\ \E a \in UnitAnswers :
          /\ a.error = CSS_OK
          /\ unitAnswer' = a
          /\ error' = a.error
          /\ ctx' = a.ctx
          /\ length' = a.length
          /\ unit' = a.unit
    /\ unit_ctx' = ctx
    /\ pc' = "check_unit"
    /\ visited' = visited \cup {"parse_unit"}
    /\ UNCHANGED <<caller, allocAnswer, allocCalls, allocSize, orig_ctx, token,
                   flags, value, opv, required_size, result, ret>>

\* the test without its frequency term
UnitNotAllowed_NoFreq(u) == BitSet(u, UNIT_ANGLE) \/ BitSet(u, UNIT_TIME)

\* line 155: unit & UNIT_ANGLE || unit & UNIT_TIME || unit & UNIT_FREQ
UnitNotAllowed(u) ==
    BitSet(u, UNIT_ANGLE) \/ BitSet(u, UNIT_TIME) \/ BitSet(u, UNIT_FREQ)

\* the rejection without *ctx = orig_ctx
UnitReject_NoRestore ==
    /\ pc = "check_unit"
    /\ UnitNotAllowed(unit)
    /\ ret' = CSS_INVALID
    /\ pc' = "returned"
    /\ visited' = visited \cup {"check_unit"}
    /\ UNCHANGED <<caller, oracle, history, ctx, orig_ctx, error, token, flags,
                   value, opv, length, unit, required_size, result>>

\* the rejection without its return: the cursor is restored and the routine
\* goes on to line 160
UnitReject_NoReturn ==
    /\ pc = "check_unit"
    /\ UnitNotAllowed(unit)
    /\ ctx' = orig_ctx
    /\ value' = MARGIN_SET
    /\ pc' = "build"
    /\ visited' = visited \cup {"check_unit"}
    /\ UNCHANGED <<caller, oracle, history, orig_ctx, error, token, flags, opv,
                   length, unit, required_size, result, ret>>

\* lines 155-158
UnitReject ==
    /\ pc = "check_unit"
    /\ UnitNotAllowed(unit)
    /\ ctx' = orig_ctx
    /\ ret' = CSS_INVALID
    /\ pc' = "returned"
    /\ visited' = visited \cup {"check_unit"}
    /\ UNCHANGED <<caller, oracle, history, orig_ctx, error, token, flags, value,
                   opv, length, unit, required_size, result>>

\* lines 155 and 160
UnitAccept ==
    /\ pc = "check_unit"
    /\ ~UnitNotAllowed(unit)
    /\ value' = MARGIN_SET
    /\ pc' = "build"
    /\ visited' = visited \cup {"check_unit"}
    /\ UNCHANGED <<caller, oracle, history, ctx, orig_ctx, error, token, flags,
                   opv, length, unit, required_size, result, ret>>

\* lines 166 and 178: (flags & FLAG_INHERIT) == false && value == MARGIN_SET
HasPayload(f, v) == ~BitSet(f, FLAG_INHERIT) /\ v = MARGIN_SET

\* the payload counted without sizeof(unit)
RequiredSize_NoUnit(f, v) ==
    IF HasPayload(f, v) THEN SizeofOpv + SizeofLength ELSE SizeofOpv

\* lines 165-167
RequiredSize(f, v) ==
    IF HasPayload(f, v) THEN SizeofOpv + SizeofLength + SizeofUnit ELSE SizeofOpv

\* lines 163-167
BuildOPV ==
    /\ pc = "build"
    /\ opv' = buildOPV(op, flags, value)
    /\ required_size' = RequiredSize(flags, value)
    /\ pc' = "alloc"
    /\ visited' = visited \cup {"build"}
    /\ UNCHANGED <<caller, oracle, history, ctx, orig_ctx, error, token, flags,
                   value, length, unit, result, ret>>

\* The answers open to the allocator now, as for the unit sub-parser.
AllocAnswers ==
    { a \in css_stylesheet_style_create(required_size) :
          allocAnswer = NoAnswer \/ a.error = allocAnswer.error }

\* lines 170-174: the allocator fails
AllocFail ==
    /\ pc = "alloc"
    /\ \E a \in AllocAnswers :
          /\ a.error # CSS_OK
          /\ allocAnswer' = [error |-> a.error]
          /\ error' = a.error
          /\ ret' = a.error
    /\ ctx' = orig_ctx
    /\ allocCalls' = allocCalls + 1
    /\ allocSize' = required_size
    /\ pc' = "returned"
    /\ visited' = visited \cup {"alloc"}
    /\ UNCHANGED <<caller, unitAnswer, unit_ctx, orig_ctx, token, flags, value,
                   opv, length, unit, required_size, result>>

\* lines 170-171: the allocator hands out the style
AllocOk ==
    /\ pc = "alloc"
    /\ \E a \in AllocAnswers :
          /\ a.error = CSS_OK
          /\ allocAnswer' = [error |-> a.error]
          /\ error' = a.error
          /\ result' = a.bytecode
    /\ allocCalls' = allocCalls + 1
    /\ allocSize' = required_size
    /\ pc' = "copy_opv"
    /\ visited' = visited \cup {"alloc"}
    /\ UNCHANGED <<caller, unitAnswer, unit_ctx, ctx, orig_ctx, token, flags,
                   value, opv, length, unit, required_size, ret>>

\* line 177
CopyOpv ==
    /\ pc = "copy_opv"
    /\ result' = memcpy(result, 0, opv)
    /\ pc' = "test_payload"
    /\ visited' = visited \cup {"copy_opv"}
    /\ UNCHANGED <<caller, oracle, history, ctx, locals, ret>>

\* lines 178-180: the magnitude, right after the OPV
CopyLength ==
    /\ pc = "test_payload"
    /\ HasPayload(flags, value)
    /\ result' = memcpy(result, SizeofOpv, length)
    /\ pc' = "copy_unit"
    /\ visited' = visited \cup {"copy_length"}
    /\ UNCHANGED <<caller, oracle, history, ctx, locals, ret>>

\* lines 181-182: offset of the unit in the bytecode
UnitOffset == SizeofOpv + SizeofLength

\* lines 181-182: the unit, right after the magnitude
CopyUnit ==
    /\ pc = "copy_unit"
    /\ result' = memcpy(result, UnitOffset, unit)
    /\ pc' = "return"
    /\ visited' = visited \cup {"copy_unit"}
    /\ UNCHANGED <<caller, oracle, history, ctx, locals, ret>>

\* line 178, the test failing: no payload to copy
NoPayload ==
    /\ pc = "test_payload"
    /\ ~HasPayload(flags, value)
    /\ pc' = "return"
    /\ UNCHANGED <<caller, oracle, history, ctx, locals, result, ret, visited>>

\* line 185
ReturnOk ==
    /\ pc = "return"
    /\ ret' = CSS_OK
    /\ pc' = "returned"
    /\ UNCHANGED <<caller, oracle, history, ctx, locals, result, visited>>

Next ==
    \/ parse_margin_bottom
    \/ parse_margin_left
    \/ parse_margin_right
    \/ parse_margin_top
    \/ PeekEmpty
    \/ PeekToken
    \/ MatchInherit
    \/ NotInherit
    \/ MatchAuto
    \/ NotAuto
    \/ ParseUnitFail
    \/ ParseUnitOk
    \/ UnitReject
    \/ UnitAccept
    \/ BuildOPV
    \/ AllocFail
    \/ AllocOk
    \/ CopyOpv
    \/ CopyLength
    \/ CopyUnit
    \/ NoPayload
    \/ ReturnOk

Spec == Init /\ [][Next]_vars

\* ------------------------------------------------------------ the properties

\* the call has returned to its caller
Returned == pc = "returned"
Succeeded == Returned /\ ret = CSS_OK
Failed == Returned /\ ret # CSS_OK
\* the call is under way or has returned
InCall == pc # "idle"

\* the token at the caller's cursor, as the caller sees it
FirstToken == parserutils_vector_peek(vector, start)
FirstIsInherit ==
    FirstToken.type = CSS_TOKEN_IDENT /\ FirstToken.ilower = "h_inherit"
FirstIsAuto ==
    FirstToken.type = CSS_TOKEN_IDENT /\ FirstToken.ilower = "h_auto"

\* the current call has entered the unit sub-parser, and how it answered
UnitParserEntered == unit_ctx # -1
UnitParserOk == UnitParserEntered /\ unitAnswer.error = CSS_OK
UnitParserFailed == UnitParserEntered /\ unitAnswer.error # CSS_OK
\* the units of angle, time and frequency, one by one
AngleTimeFreqUnits == {UNIT_DEG, UNIT_MS, UNIT_HZ}

\* the 32-bit word held at byte offset off of buf
Word(buf, off) ==
    buf[off + 1] + (256 * buf[off + 2]) + (65536 * buf[off + 3])
        + (16777216 * buf[off + 4])
\* the bytes of buf after the header
Payload(buf) == [i \in 1..(Len(buf) - SizeofOpv) |-> buf[i + SizeofOpv]]

\* C1: a call that returns anything but CSS_OK (empty position, unit
\* sub-parser failure, rejected unit class, allocation failure) leaves the
\* caller's cursor at its value on entry, however far the unit sub-parser
\* had moved it.
C1_FailureRestoresCursor == Failed => ctx = start

\* C1 witness: a call rejected for its unit class after the unit sub-parser
\* had advanced over two tokens.
C1_Witness ==
    /\ Failed
    /\ UnitParserOk
    /\ unitAnswer.ctx = start + 2
    /\ unitAnswer.unit = UNIT_DEG
    /\ ctx = start

\* C2: on success the size asked of the allocator, which is the length of the
\* bytecode returned, is the header size for inherit and for auto, and header
\* plus magnitude plus unit exactly when the inherit flag is unset and the
\* value is MARGIN_SET; no other size is asked for.
C2_SizeMatchesShape ==
    Succeeded =>
        /\ Len(result) = allocSize
        /\ allocSize \in {SizeofOpv, SizeofOpv + SizeofLength + SizeofUnit}
        /\ (allocSize = SizeofOpv + SizeofLength + SizeofUnit
                <=> (~BitSet(flags, FLAG_INHERIT) /\ value = MARGIN_SET))
        /\ ((FirstIsInherit \/ FirstIsAuto) => allocSize = SizeofOpv)

\* C2 witness: a successful quantity, twelve bytes long.
C2_Witness ==
    /\ Succeeded
    /\ value = MARGIN_SET
    /\ flags = 0
    /\ Len(result) = 12

\* C3: a call takes at most one of the branches inherit, auto, quantity; all
\* through the call the inherit flag being set means the value is not
\* MARGIN_SET and magnitude and unit are still zero; no bytecode with the
\* inherit flag, or with the value MARGIN_AUTO, carries a payload.
C3_OneBranch ==
    InCall =>
        /\ Cardinality(visited \cap {"inherit", "auto", "parse_unit"}) <= 1
        /\ (BitSet(flags, FLAG_INHERIT) =>
                value # MARGIN_SET /\ length = 0 /\ unit = 0)
        /\ (Succeeded =>
                LET w == Word(result, 0) IN
                (BitSet(getFlags(w), FLAG_INHERIT) \/ getValue(w) = MARGIN_AUTO)
                    => Len(result) = SizeofOpv)

\* C3 witness: inherit parsed with success where a further token follows.
C3_Witness ==
    /\ Succeeded
    /\ "inherit" \in visited
    /\ BitSet(getFlags(Word(result, 0)), FLAG_INHERIT)
    /\ Len(vector) > start + 1

\* C4: when the first token is neither the identifier inherit nor the
\* identifier auto and the unit sub-parser succeeds with a unit of angle, time
\* or frequency, the call fails with CSS_INVALID, the cursor is back at its
\* entry value and the allocator was never asked; whatever the token's type.
C4_AngleTimeFreqRejected ==
    (/\ InCall
     /\ ~FirstIsInherit
     /\ ~FirstIsAuto
     /\ UnitParserOk
     /\ unitAnswer.unit \in AngleTimeFreqUnits)
        => /\ pc \in {"check_unit", "returned"}
           /\ allocCalls = 0
           /\ result = NoStyle
           /\ (Returned => ret = CSS_INVALID /\ ctx = start)

\* C4 witness: a frequency unit answered for a token that is no dimension,
\* rejected.
C4_Witness ==
    /\ Returned
    /\ FirstToken.type = CSS_TOKEN_STRING
    /\ UnitParserOk
    /\ unitAnswer.unit = UNIT_HZ
    /\ ret = CSS_INVALID

\* C5: a failed call returns CSS_INVALID or CSS_NOMEM and nothing else: an
\* empty position gives CSS_INVALID, a unit sub-parser failure the very kind
\* the sub-parser reported, a rejected unit class CSS_INVALID, an allocator
\* failure CSS_NOMEM.
C5_ErrorKinds ==
    Returned =>
        /\ ret \in {CSS_OK, CSS_INVALID, CSS_NOMEM}
        /\ (FirstToken = NULL => ret = CSS_INVALID)
        /\ (UnitParserFailed => ret = unitAnswer.error)
        /\ ((UnitParserOk /\ unitAnswer.unit \in AngleTimeFreqUnits)
                => ret = CSS_INVALID)
        /\ ((allocCalls > 0 /\ allocAnswer.error # CSS_OK) => ret = CSS_NOMEM)

\* C5 witness: the unit sub-parser ran out of memory and the call says so.
C5_Witness ==
    /\ Failed
    /\ UnitParserFailed
    /\ unitAnswer.error = CSS_NOMEM
    /\ ret = CSS_NOMEM

\* C6: on success the cursor stays advanced: exactly one token past the entry
\* position for the identifiers inherit and auto, and exactly where the unit
\* sub-parser left it for a quantity.
C6_SuccessAdvancesCursor ==
    Succeeded =>
        /\ ((FirstIsInherit \/ FirstIsAuto) => ctx = start + 1)
        /\ (~(FirstIsInherit \/ FirstIsAuto) =>
                UnitParserOk /\ ctx = unitAnswer.ctx /\ ctx > start)

\* C6 witness: auto parsed with success, one token consumed of the two left.
C6_Witness ==
    /\ Succeeded
    /\ FirstIsAuto
    /\ ctx = start + 1
    /\ Len(vector) = start + 2

\* C7: the same entry point called twice on the same vector from the same
\* cursor value, the unit sub-parser and the allocator answering alike, gives
\* the same return kind, the same final cursor and the same bytes.
C7_SameCallSameOutcome ==
    (Returned /\ run = 2 /\ first.entry = entry) => Outcome = first

\* C7 witness: a quantity parsed twice through the same entry point.
C7_Witness ==
    /\ Returned
    /\ run = 2
    /\ first.entry = entry
    /\ first.ret = CSS_OK
    /\ Len(first.result) = 12
    /\ Len(result) = 12

\* C8: a call asks the allocator at most once, and only after the branch is
\* decided, the unit class validated and the size computed; a successful call
\* asks exactly once, a call that fails on the grammar (empty position, unit
\* sub-parser failure, rejected unit class) never; bytes are written only
\* into a style the allocator handed out, whose length never changes.
C8_OneAllocationAfterDecision ==
    InCall =>
        /\ allocCalls <= 1
        /\ (allocCalls = 1 =>
                /\ {"peek", "test_inherit", "build"} \subseteq visited
                /\ Cardinality(visited \cap {"inherit", "auto", "check_unit"}) = 1
                /\ (UnitParserEntered =>
                        UnitParserOk /\ unitAnswer.unit \notin AngleTimeFreqUnits)
                /\ allocSize = required_size
                /\ required_size # Undef)
        /\ (Succeeded => allocCalls = 1)
        /\ ((Failed /\ (FirstToken = NULL \/ UnitParserFailed
                          \/ (UnitParserOk /\ unitAnswer.unit \in AngleTimeFreqUnits)))
                => allocCalls = 0)
        /\ (result # NoStyle =>
                /\ allocCalls = 1
                /\ allocAnswer.error = CSS_OK
                /\ Len(result) = allocSize)
        /\ (pc \in {"peek", "test_inherit", "test_auto", "parse_unit",
                    "check_unit", "build", "alloc"} => result = NoStyle)

\* C8 witness: a successful call, its one allocation made and filled.
C8_Witness ==
    /\ Succeeded
    /\ allocCalls = 1
    /\ \A i \in DOMAIN result : result[i] # Undef
    /\ FirstIsAuto

\* the opcode each entry point stands for
OpcodeOf(e) ==
    CASE e = "parse_margin_top" -> CSS_PROP_MARGIN_TOP
      [] e = "parse_margin_right" -> CSS_PROP_MARGIN_RIGHT
      [] e = "parse_margin_bottom" -> CSS_PROP_MARGIN_BOTTOM
      [] e = "parse_margin_left" -> CSS_PROP_MARGIN_LEFT

\* the reference encoding of what the caller's tokens say, for entry point e
RefFlags == IF FirstIsInherit THEN FLAG_INHERIT ELSE 0
RefValue == IF FirstIsInherit \/ FirstIsAuto THEN MARGIN_AUTO ELSE MARGIN_SET
RefBytes(e) ==
    IF FirstIsInherit \/ FirstIsAuto
    THEN Bytes(buildOPV(OpcodeOf(e), RefFlags, RefValue))
    ELSE Bytes(buildOPV(OpcodeOf(e), RefFlags, RefValue))
             \o Bytes(unitAnswer.length) \o Bytes(unitAnswer.unit)

\* C9: on success through entry point P the bytecode is the reference
\* encoding: the OPV of (opcode of P, inherit flag, value) at offset 0, then,
\* for a quantity only, the magnitude and then the unit the sub-parser
\* returned, nothing between; and the four entry points agree on return kind,
\* final cursor and payload, their bytecode differing in the opcode only.
C9_ReferenceEncoding ==
    /\ (Succeeded => result = RefBytes(entry))
    /\ ((Returned /\ run = 2) =>
            /\ first.ret = ret
            /\ first.ctx = ctx
            /\ Len(first.result) = Len(result)
            /\ Payload(first.result) = Payload(result)
            /\ (Succeeded =>
                    /\ getFlags(Word(first.result, 0)) = getFlags(Word(result, 0))
                    /\ getValue(Word(first.result, 0)) = getValue(Word(result, 0))
                    /\ getOpcode(Word(first.result, 0)) = OpcodeOf(first.entry)
                    /\ getOpcode(Word(result, 0)) = OpcodeOf(entry)))

\* C9 witness: a quantity of magnitude -1.0 in percent parsed through
\* margin-top and then through margin-left.
C9_Witness ==
    /\ Succeeded
    /\ run = 2
    /\ first.entry = "parse_margin_top"
    /\ entry = "parse_margin_left"
    /\ UnitParserOk
    /\ unitAnswer.length = -1024
    /\ unitAnswer.unit = UNIT_PCT
    /\ Len(result) = 12

\* C10: a keyword branch is taken only for a token of type CSS_TOKEN_IDENT: a
\* token of another type carrying the handle of inherit or auto is not
\* consumed by a keyword branch and goes to the unit sub-parser at the entry
\* cursor position; and for the identifier inherit the inherit branch is
\* taken, the auto test and the unit sub-parser never reached.
C10_KeywordNeedsIdent ==
    InCall =>
        /\ (("inherit" \in visited \/ "auto" \in visited)
                => FirstToken.type = CSS_TOKEN_IDENT)
        /\ ((/\ FirstToken # NULL
             /\ FirstToken.type # CSS_TOKEN_IDENT
             /\ FirstToken.ilower \in {"h_inherit", "h_auto"})
                => /\ (pc \in {"test_inherit", "test_auto", "parse_unit"}
                          => ctx = start)
                   /\ (UnitParserEntered => unit_ctx = start)
                   /\ (Returned => UnitParserEntered))
        /\ (FirstIsInherit =>
                /\ "test_auto" \notin visited
                /\ ~UnitParserEntered
                /\ pc \notin {"test_auto", "parse_unit", "check_unit"}
                /\ ("test_inherit" \in visited => "inherit" \in visited))

\* C10 witness: a string token with the handle of inherit, handed to the unit
\* sub-parser at the entry position and parsed there as a quantity.
C10_Witness ==
    /\ Succeeded
    /\ FirstToken.type = CSS_TOKEN_STRING
    /\ FirstToken.ilower = "h_inherit"
    /\ unit_ctx = start
    /\ value = MARGIN_SET
====
